---- MODULE Spec2Model ----
(***************************************************************************)
(* State-machine model of js/game.js (the second, current version of the   *)
(* file, lines 332-1779): the ship grid, the per-module damage/flood state  *)
(* machine, the global cooldown with its single pending callback, the       *)
(* build menu, click dispatch, the fixed-interval tick and session          *)
(* start/restart.                                                           *)
(*                                                                          *)
(* Numbers.  The program computes in floating point; the model computes in  *)
(* fixed point:                                                             *)
(*   - times are in milliseconds;                                           *)
(*   - weight, buoyancy, flood, speed and distance are in tenths            *)
(*     (weight 5 is 50, speed .5 is 5);                                     *)
(*   - shipDraught is in tenths of a pixel (10 px is 100);                  *)
(*   - damage is in whole health points, a boost is rounded down.           *)
(* Math.random() is an input of every step that calls it.                   *)
(***************************************************************************)
EXTENDS Integers, Sequences, FiniteSets, TLC

(***************************************************************************)
(* Bounds of the model.                                                     *)
(***************************************************************************)
\* rows the grid may grow to (a slot may be clicked in rows 0..MaxRows-2)
MaxRows == 3
\* non-empty modules a ship may hold before no further build is confirmed
MaxModules == 2
\* build menus that may be open at once (SpecBuild)
MaxBuildMenus == 1
\* simulated milliseconds a session is followed after the title screen (Spec)
MaxTime == 3000
\* simulated milliseconds a session is followed (SpecLoss)
MaxLossTime == 5000
\* simulated milliseconds a session is followed (SpecBuild)
MaxBuildTime == 3000
\* non-empty modules of a ship in SpecBuild
MaxBuildModules == 4
\* restarts of the game from the game-over screen
MaxRestarts == 1
\* the Math.random() that scales a boost is drawn from
\* {1/RandDen, ..., (RandDen-1)/RandDen}
RandDen == 3
\* Particle entities alive or dead in the entities array (SpecParticle)
MaxParticles == 2
\* simulated milliseconds a session is followed after the title screen
\* (SpecAdrift)
MaxAdriftTime == 20000
\* age in ms up to which a particle is followed
MaxParticleAge == 2000
\* simulated milliseconds a session is followed (SpecParticle)
MaxParticleTime == 2000

(***************************************************************************)
(* Program constants.                                                       *)
(***************************************************************************)
SHIP_MODULE_HEIGHT == 128
columns == 5
\* ShipModule.health
health == 10
\* HullModule.buoyancy
buoyancy == 20
\* delay passed to State.doPlayerAction by both callers
ActionDelay == 1000
\* Math.min(now - previousTick, 1000)
MaxTickDelta == 1000
\* TitleScreen.onClick: fadeUntil = fadeStart + 500
FadeTime == 500
\* fixed-point factor: tenths
Scale == 10

Min(a, b) == IF a < b THEN a ELSE b
Max(a, b) == IF a > b THEN a ELSE b

(***************************************************************************)
(* Module classes and their static properties.                              *)
(***************************************************************************)
\* const moduleTypes = [...]
moduleTypes ==
    << "HullModule", "SailModule", "BoilerModule", "PropellerModule",
       "FinSailModule", "BalloonModule", "CastleModule", "SmokeStackModule" >>

ModuleTypeSet == { moduleTypes[i] : i \in 1..Len(moduleTypes) }

AllTypes == ModuleTypeSet \cup { "NullModule", "ConstructionModule" }

\* static solid: true in ShipModule, overridden to false in seven subclasses
SolidClass(T) == T \in { "HullModule", "BoilerModule", "CastleModule" }

\* baseFragility: 0 in ShipModule, 1 in HullModule and BoilerModule
baseFragility(T) == IF T \in { "HullModule", "BoilerModule" } THEN 1 ELSE 0

\* the value getModule returns for coordinates outside the grid
Absent == [ type |-> "undefined" ]

\* fields of a freshly constructed module (ShipModule constructor and the
\* class fields of HullModule and NullModule)
NewFields(T) ==
    [ type |-> T, damage |-> 0, damageLevel |-> "normal",
      isBeingRepaired |-> FALSE, floodAmount |-> 0,
      renderTopHull |-> FALSE, renderLeftHull |-> FALSE,
      buildOptions |-> {}, showBackground |-> FALSE, showOutline |-> FALSE ]

(***************************************************************************)
(* The grid: g[y][x] for y in 0..rows-1, x in 0..columns-1.                 *)
(***************************************************************************)
\* Ship.getModule(x, y) without a class filter
getModule(g, x, y) ==
    IF y \notin DOMAIN g THEN Absent
    ELSE IF x \notin DOMAIN g[y] THEN Absent
    ELSE g[y][x]

\* Ship.getModule(x, y, ModuleClass)
getModuleOf(g, x, y, T) ==
    LET m == getModule(g, x, y) IN IF m.type = T THEN m ELSE Absent

\* `m && m.solid'
solid(m) == SolidClass(m.type)

\* the static canBuildAt(modX, modY) of each class, against state.ship = g
canBuildAt(g, T, modX, modY) ==
    CASE T = "HullModule" ->
           IF modY = 0
           THEN solid(getModule(g, modX - 1, modY)) \/ solid(getModule(g, modX + 1, modY))
           ELSE solid(getModule(g, modX, modY - 1))
      [] T = "SailModule" ->
           IF modY = 0 THEN FALSE ELSE solid(getModule(g, modX, modY - 1))
      [] T = "BoilerModule" -> solid(getModule(g, modX, modY - 1))
      [] T = "PropellerModule" -> getModule(g, modX - 1, modY).type = "BoilerModule"
      [] T = "BalloonModule" -> getModule(g, modX, modY - 1).type = "BoilerModule"
      [] T = "FinSailModule" -> solid(getModule(g, modX + 1, modY))
      [] T = "CastleModule" -> solid(getModule(g, modX, modY - 1))
      [] T = "SmokeStackModule" ->
           solid(getModuleOf(g, modX, modY - 1, "BoilerModule"))
      [] OTHER -> TRUE

\* a canBuildModule that forgets the edge columns
canBuildModuleAnyColumn(g, x, y, T) == canBuildAt(g, T, x, y)

\* Ship.canBuildModule(x, y, ModuleClass)
canBuildModule(g, x, y, T) ==
    IF SolidClass(T) /\ (x = 0 \/ x = columns - 1)
    THEN FALSE
    ELSE canBuildAt(g, T, x, y)

\* the flags updateDisplay() leaves on module m at (x, y); a class without an
\* override keeps its fields
updateDisplay(g, m, x, y) ==
    CASE m.type = "HullModule" ->
           [ m EXCEPT !.renderTopHull = solid(getModule(g, x, y + 1)),
                      !.renderLeftHull =
                          getModuleOf(g, x - 1, y, "HullModule") # Absent ]
      [] m.type = "NullModule" ->
           LET opts == { T \in ModuleTypeSet : canBuildModule(g, x, y, T) }
           IN [ m EXCEPT !.buildOptions = opts, !.showBackground = opts # {} ]
      [] OTHER -> m

\* new ModuleClass(ship, x, y): HullModule and NullModule call updateDisplay()
\* in their constructor, while the grid is still g
NewModule(g, T, x, y) == updateDisplay(g, NewFields(T), x, y)

\* Ship.updateModule(x, y)
updateModule(g, x, y) ==
    IF getModule(g, x, y) = Absent THEN g
    ELSE [ g EXCEPT ![y][x] = updateDisplay(g, g[y][x], x, y) ]

\* the loop of Ship.addModule that creates row yy when it is missing
AddRow(g, yy) ==
    IF yy \in DOMAIN g THEN g
    ELSE [ r \in (DOMAIN g) \cup { yy } |->
             IF r = yy
             THEN [ i \in 0..(columns - 1) |-> NewModule(g, "NullModule", i, yy) ]
             ELSE g[r] ]

\* an addModule that does not refresh the module above
addModuleNotAbove(g, x, y, T) ==
    LET g1 == AddRow(AddRow(g, y), y + 1)
        g2 == [ g1 EXCEPT ![y][x] = NewModule(g1, T, x, y) ]
        g3 == updateModule(g2, x - 1, y)
        g4 == updateModule(g3, x + 1, y)
    IN updateModule(g4, x, y - 1)

\* the grid after Ship.addModule(x, y, ModuleClass)
addModule(g, x, y, T) ==
    LET g1 == AddRow(AddRow(g, y), y + 1)
        g2 == [ g1 EXCEPT ![y][x] = NewModule(g1, T, x, y) ]
        g3 == updateModule(g2, x - 1, y)
        g4 == updateModule(g3, x + 1, y)
        g5 == updateModule(g4, x, y - 1)
    IN updateModule(g5, x, y + 1)

\* a row count that leaves out the row of slots above the module
addModuleRowsOwnRow(r, y) == IF y >= r THEN y + 1 ELSE r

\* ship.rows after Ship.addModule(x, y, ModuleClass)
addModuleRows(r, y) == IF y + 1 >= r THEN y + 2 ELSE r

(***************************************************************************)
(* Per-module physics.                                                      *)
(***************************************************************************)
\* tenths of a pixel of row y below the draught line: percentSubmerged is
\* Submerged / (SHIP_MODULE_HEIGHT * Scale), clamped to [0, 1]
Submerged(draught, y) ==
    Max(0, Min(SHIP_MODULE_HEIGHT * Scale, draught - y * SHIP_MODULE_HEIGHT * Scale))

FullySubmerged == SHIP_MODULE_HEIGHT * Scale
HalfSubmerged == (SHIP_MODULE_HEIGHT * Scale) \div 2

\* BoilerModule.isGeneratingSteam; undefined (falsy) on every other class
isGeneratingSteam(m, draught, y) ==
    /\ m.type = "BoilerModule"
    /\ ~ (Submerged(draught, y) > HalfSubmerged)
    /\ m.damageLevel # "broken"

\* BalloonModule.isInflated dereferences the module below without a guard
isInflatedFaults(g, x, y) == getModule(g, x, y - 1) = Absent

isInflated(g, draught, x, y) == isGeneratingSteam(getModule(g, x, y - 1), draught, y - 1)

\* the weight getter / field of each class, in tenths
weight(g, draught, x, y) ==
    LET T == g[y][x].type IN
    CASE T = "NullModule" -> 0
      [] T = "SailModule" -> 15
      [] T = "BoilerModule" -> 100
      [] T = "PropellerModule" -> 20
      [] T = "BalloonModule" -> IF isInflated(g, draught, x, y) THEN -100 ELSE 10
      [] T = "FinSailModule" -> 25
      [] T = "CastleModule" -> 200
      [] T = "SmokeStackModule" -> 80
      [] OTHER -> 50

\* a hull that lifts nothing
moduleBuoyancyNone(g, draught, x, y) == 0

\* HullModule.getStats().buoyancy in tenths; 0 for a class that reports none
moduleBuoyancy(g, draught, x, y) ==
    LET m == g[y][x] IN
    IF m.type = "HullModule" /\ Submerged(draught, y) > 0
    THEN (buoyancy * Scale * Submerged(draught, y)) \div FullySubmerged - m.floodAmount
    ELSE 0

\* sails that drag the ship back once they are half under water
moduleSpeedDrag(g, draught, x, y) ==
    LET T == g[y][x].type IN
    CASE T = "SailModule" -> IF Submerged(draught, y) < HalfSubmerged THEN 10 ELSE -10
      [] T = "FinSailModule" -> IF Submerged(draught, y) < HalfSubmerged THEN 5 ELSE -5
      [] T = "PropellerModule" ->
           IF isGeneratingSteam(getModule(g, x - 1, y), draught, y) THEN 50 ELSE 0
      [] OTHER -> 0

\* getStats().speed of SailModule, FinSailModule and PropellerModule, in tenths
moduleSpeed(g, draught, x, y) ==
    LET T == g[y][x].type IN
    CASE T = "SailModule" -> IF Submerged(draught, y) < HalfSubmerged THEN 10 ELSE 0
      [] T = "FinSailModule" -> IF Submerged(draught, y) < HalfSubmerged THEN 5 ELSE 0
      [] T = "PropellerModule" ->
           IF isGeneratingSteam(getModule(g, x - 1, y), draught, y) THEN 50 ELSE 0
      [] OTHER -> 0

\* Ship.getStats(): the two nested loops, accumulating cell by cell
RECURSIVE getStatsFrom(_, _, _, _, _)
getStatsFrom(g, draught, x, y, acc) ==
    IF y \notin DOMAIN g THEN acc
    ELSE IF x \notin DOMAIN g[y] THEN getStatsFrom(g, draught, 0, y + 1, acc)
    ELSE getStatsFrom(g, draught, x + 1, y,
            [ weight |-> acc.weight + weight(g, draught, x, y),
              buoyancy |-> acc.buoyancy + moduleBuoyancy(g, draught, x, y),
              speed |-> acc.speed + moduleSpeed(g, draught, x, y) ])

\* a getStats that stops after the bottom row
getStatsBottomRow(g, draught) ==
    getStatsFrom([ y \in { 0 } |-> g[y] ], draught, 0, 0,
                 [ weight |-> 0, buoyancy |-> 0, speed |-> 0 ])

getStats(g, draught) ==
    getStatsFrom(g, draught, 0, 0, [ weight |-> 0, buoyancy |-> 0, speed |-> 0 ])

\* Ship.getStats() throws a TypeError when a BalloonModule has no row below
getStatsFaults(g) ==
    \E y \in DOMAIN g : \E x \in DOMAIN g[y] :
        g[y][x].type = "BalloonModule" /\ isInflatedFaults(g, x, y)

\* State.shipHeight, in pixels
shipHeight(g) ==
    SHIP_MODULE_HEIGHT *
        Cardinality({ y \in DOMAIN g : \E x \in DOMAIN g[y] : g[y][x].type # "NullModule" })

\* Ship.moduleCount
moduleCount(g) ==
    Cardinality({ c \in (DOMAIN g) \X (0..(columns - 1)) : g[c[1]][c[2]].type # "NullModule" })

\* twice ShipModule.fragility: halved by an orthogonally adjacent CastleModule
fragility2(g, x, y) ==
    IF baseFragility(g[y][x].type) = 0 THEN 0
    ELSE IF \E d \in { << -1, 0 >>, << 1, 0 >>, << 0, -1 >>, << 0, 1 >> } :
               getModule(g, x + d[1], y + d[2]).type = "CastleModule"
         THEN baseFragility(g[y][x].type)
         ELSE 2 * baseFragility(g[y][x].type)

\* State.difficultyCoefficient times 120000:
\* max(distanceTraveled / 2000, timeElapsed / 120000)
difficultyCoefficient(distance, time) == Max(6 * distance, time)

\* the draws of Math.random() in one ShipModule.tick: the first is compared
\* with .05, the second (r / RandDen) scales the boost
Draws ==
    { [ hit |-> FALSE, r |-> 0 ] } \cup { [ hit |-> TRUE, r |-> k ] : k \in 1..(RandDen - 1) }

\* fragility * difficultyCoefficient * (timeSinceLastTick / 50) * Math.random()
boost(f2, coeff, dt, r) == (f2 * coeff * dt * r) \div (2 * 120000 * 50 * RandDen)

\* the damage of a hit without the clamp to health
damageUnclamped(m, b) == m.damage + b

\* the damage written by ShipModule.tick on a hit
damageAfter(m, b) == Min(health, m.damage + b)

\* a damage level that is a function of the damage alone
levelOfDamage(level, dmg) ==
    IF dmg = health THEN "broken"
    ELSE IF 2 * dmg > health THEN "damaged"
    ELSE "normal"

\* a chain that takes half of the health for 'damaged' already
levelAfterAtHalf(level, dmg) ==
    IF level # "broken" /\ dmg = health THEN "broken"
    ELSE IF level = "normal" /\ 2 * dmg >= health THEN "damaged"
    ELSE IF level # "normal" /\ dmg = 0 THEN "normal"
    ELSE level

\* the if / else-if chain of ShipModule.tick that moves damageLevel
levelAfter(level, dmg) ==
    IF level # "broken" /\ dmg = health THEN "broken"
    ELSE IF level = "normal" /\ 2 * dmg > health THEN "damaged"
    ELSE IF level # "normal" /\ dmg = 0 THEN "normal"
    ELSE level

\* an onFixed that leaves the water in the hull
onFixedKeepsFlood(m) == m

\* HullModule.onFixed; ShipModule.onFixed is empty
onFixed(m) == IF m.type = "HullModule" THEN [ m EXCEPT !.floodAmount = 0 ] ELSE m

\* ShipModule.tick(timeSinceLastTick) on module m at (x, y) with draw d
ShipModuleTick(g, m, x, y, dt, coeff, d) ==
    IF fragility2(g, x, y) = 0 THEN m
    ELSE LET dmg == IF d.hit
                    THEN damageAfter(m, boost(fragility2(g, x, y), coeff, dt, d.r))
                    ELSE m.damage
             lvl == levelAfter(m.damageLevel, dmg)
             m1 == [ m EXCEPT !.damage = dmg, !.damageLevel = lvl ]
         IN IF lvl = "normal" /\ m.damageLevel # "normal" THEN onFixed(m1) ELSE m1

\* HullModule.tick, BoilerModule.tick and the inherited ShipModule.tick
ModuleTick(g, m, x, y, draught, dt, coeff, d) ==
    CASE m.type = "NullModule" -> m
      [] m.type = "HullModule" ->
           IF Submerged(draught, y) = 0 THEN m
           ELSE LET m1 == ShipModuleTick(g, m, x, y, dt, coeff, d) IN
                IF m1.damageLevel = "broken"
                THEN [ m1 EXCEPT !.floodAmount =
                         Min(buoyancy * Scale, m1.floodAmount + (2 * Scale * dt) \div 1000) ]
                ELSE m1
      [] m.type = "BoilerModule" ->
           IF Submerged(draught, y) >= FullySubmerged THEN m
           ELSE ShipModuleTick(g, m, x, y, dt, coeff, d)
      [] OTHER -> ShipModuleTick(g, m, x, y, dt, coeff, d)

\* the cells whose tick draws random numbers for damage
Rolls(g, draught) ==
    { c \in (DOMAIN g) \X (0..(columns - 1)) :
        /\ fragility2(g, c[2], c[1]) # 0
        /\ g[c[1]][c[2]].type = "HullModule" => Submerged(draught, c[1]) > 0
        /\ g[c[1]][c[2]].type = "BoilerModule" => Submerged(draught, c[1]) < FullySubmerged }

NoDraw == [ hit |-> FALSE, r |-> 0 ]

\* Ship.tick: every module ticks; no module's tick reads what another writes
ShipTick(g, draught, dt, coeff, draw) ==
    [ y \in DOMAIN g |-> [ x \in DOMAIN g[y] |->
        ModuleTick(g, g[y][x], x, y, draught, dt, coeff,
                   IF << y, x >> \in DOMAIN draw THEN draw[<< y, x >>] ELSE NoDraw) ] ]

(***************************************************************************)
(* Entities.                                                                *)
(***************************************************************************)
\* new Entity of some class: alive = true
NewEntity(k) == [ kind |-> k, alive |-> TRUE ]

\* zIndex of each entity class (ForegroundWater is the Water given zIndex 100)
zIndex(e) ==
    CASE e.kind \in { "TitleScreen", "GameOverScreen" } -> 1000
      [] e.kind = "ShipUI" -> 200
      [] e.kind = "ForegroundWater" -> 100
      [] OTHER -> 0

\* entities.sort((a, b) => a.zIndex - b.zIndex) of render(): a stable sort
RECURSIVE sortEntities(_)
sortEntities(es) ==
    IF Len(es) <= 1 THEN es
    ELSE LET rest == sortEntities(Tail(es))
             before == SelectSeq(rest, LAMBDA e : zIndex(e) < zIndex(Head(es)))
             after == SelectSeq(rest, LAMBDA e : zIndex(e) >= zIndex(Head(es)))
         IN before \o << Head(es) >> \o after

\* the entities setUp pushes, in push order, then sorted by its call of render()
setUpEntities ==
    sortEntities(<< NewEntity("GameController"), NewEntity("TitleScreen"),
                    NewEntity("Water"), NewEntity("Ship"), NewEntity("ShipUI"),
                    NewEntity("ForegroundWater") >>)

\* State.currentCallback: null, the closure of ShipModule.onClick (repair) or
\* the closure of the build menu's clickHandler (build); ship tells whether
\* the closure's this.ship is state.ship or the ship of an earlier session
NoCallback == [ kind |-> "null", x |-> 0, y |-> 0, type |-> "undefined", ship |-> "current" ]
RepairCallback(x, y) == [ NoCallback EXCEPT !.kind = "repair", !.x = x, !.y = y ]
BuildCallback(x, y, T, sh) ==
    [ kind |-> "build", x |-> x, y |-> y, type |-> T, ship |-> sh ]

VARIABLES
    modules,          \* state.ship.modules
    rows,             \* state.ship.rows
    shipUpdating,     \* state.ship.updating
    shipDraught,      \* state.shipDraught, tenths of a pixel
    distanceTraveled, \* state.distanceTraveled, tenths
    timeElapsed,      \* state.timeElapsed, ms
    speed,            \* state.speed, tenths
    cooldown,         \* state.cooldown, ms
    currentCallback,  \* state.currentCallback
    paused,           \* state.paused
    gameRunning,      \* state.gameRunning
    entities,         \* the entities array
    menus,            \* the open #module-menu elements with their clickHandler
    fadeLeft,         \* TitleScreen: -1 while fadeStart is 0, else ms until fadeUntil
    keydownListeners, \* the keydown listeners setUp has added to document
    tickTimers,       \* the intervals of setInterval(tick, 100) not cleared
    particles,        \* the Particle entities of the entities array, in push order
    cursor,           \* canvasEl.style.cursor
    hoveredEntity,    \* state.hoveredEntity
    mouse,            \* state.currentMouseX, state.currentMouseY as a pointer position
    hoverCalls        \* the handlers the last onMouseMove called, in order

vars ==
    << modules, rows, shipUpdating, shipDraught, distanceTraveled, timeElapsed,
       speed, cooldown, currentCallback, paused, gameRunning, entities, menus,
       fadeLeft, keydownListeners, tickTimers, particles, cursor, hoveredEntity,
       mouse, hoverCalls >>

\* a pointer position: inside the cell (x, y) of the ship grid, or off the ship
Outside == << -1, -1 >>
Targets == ((0..(columns - 1)) \X (0..(MaxRows - 2))) \cup { Outside }

\* the value null of state.hoveredEntity
NoEntity == [ kind |-> "null", x |-> 0, y |-> 0, type |-> "undefined" ]

\* setUp(canvasEl): new Ship, new State(ship), the entities, addModule(2, 0, HullModule)
SetUpState ==
    /\ modules' = addModule(<< >>, 2, 0, "HullModule")
    /\ rows' = addModuleRows(1, 0)
    /\ shipUpdating' = FALSE
    /\ shipDraught' = 10 * Scale
    /\ distanceTraveled' = 0
    /\ timeElapsed' = 0
    /\ speed' = 0
    /\ cooldown' = 0
    /\ currentCallback' = NoCallback
    /\ paused' = FALSE
    /\ gameRunning' = TRUE
    /\ entities' = setUpEntities
    /\ fadeLeft' = -1
    /\ keydownListeners' = keydownListeners + 1
    /\ tickTimers' = tickTimers + 1
    /\ particles' = << >>
    /\ hoveredEntity' = NoEntity
    /\ mouse' = Outside
    /\ UNCHANGED << cursor, hoverCalls >>

Init ==
    /\ modules = addModule(<< >>, 2, 0, "HullModule")
    /\ rows = addModuleRows(1, 0)
    /\ shipUpdating = FALSE
    /\ shipDraught = 10 * Scale
    /\ distanceTraveled = 0
    /\ timeElapsed = 0
    /\ speed = 0
    /\ cooldown = 0
    /\ currentCallback = NoCallback
    /\ paused = FALSE
    /\ gameRunning = TRUE
    /\ entities = setUpEntities
    /\ menus = << >>
    /\ fadeLeft = -1
    /\ keydownListeners = 1
    /\ tickTimers = 1
    /\ particles = << >>
    /\ cursor = ""
    /\ hoveredEntity = NoEntity
    /\ mouse = Outside
    /\ hoverCalls = << >>

(***************************************************************************)
(* The simulation tick.                                                     *)
(***************************************************************************)
\* the grid after state.currentCallback() has run
callbackModules(g, cb) ==
    CASE cb.kind = "repair" ->
           [ g EXCEPT ![cb.y][cb.x] =
               onFixed([ @ EXCEPT !.damage = 0, !.isBeingRepaired = FALSE ]) ]
      [] cb.kind = "build" /\ cb.ship = "current" -> addModule(g, cb.x, cb.y, cb.type)
      [] OTHER -> g

\* ship.rows after state.currentCallback() has run
callbackRows(r, cb) ==
    IF cb.kind = "build" /\ cb.ship = "current" THEN addModuleRows(r, cb.y) ELSE r

\* a loss test that forgets state.gameRunning
shipSunkUnguarded(height, draught, running) == height * Scale < draught

\* `state.shipHeight < state.shipDraught && state.gameRunning'
shipSunk(height, draught, running) == height * Scale < draught /\ running

\* isEntityInteractive(entity)
isEntityInteractive(e) ==
    /\ ~ (paused /\ e.kind \notin { "TitleScreen", "GameOverScreen" })
    /\ e.kind = "Ship" => shipUpdating

\* a hit test of the ship that does not skip the rows under water
checkClickUnderWater(e, t) ==
    CASE e.kind \in { "TitleScreen", "GameOverScreen" } -> TRUE
      [] e.kind = "Ship" ->
           /\ gameRunning
           /\ t # Outside
           /\ t[2] < rows
      [] OTHER -> FALSE

\* whether entity.checkClick(x, y) returns an entity for pointer position t
checkClick(e, t) ==
    CASE e.kind \in { "TitleScreen", "GameOverScreen" } -> TRUE
      [] e.kind = "Ship" ->
           /\ gameRunning
           /\ t # Outside
           /\ t[2] < rows
           /\ ~ ((t[2] + 1) * SHIP_MODULE_HEIGHT * Scale < shipDraught)
      [] OTHER -> FALSE

\* a loop that goes on to the last entity that is hit
lastHit(t) ==
    LET hits == { i \in 1..Len(entities) :
                    isEntityInteractive(entities[i]) /\ checkClick(entities[i], t) }
    IN IF hits = {} THEN 0 ELSE CHOOSE i \in hits : \A j \in hits : i >= j

\* index of the entity the loop of onClick / onMouseMove stops at, 0 if none
firstHit(t) ==
    LET hits == { i \in 1..Len(entities) :
                    isEntityInteractive(entities[i]) /\ checkClick(entities[i], t) }
    IN IF hits = {} THEN 0 ELSE CHOOSE i \in hits : \A j \in hits : i <= j

\* what checkClick of the entity the loop stops at returns for pointer
\* position t on grid g: Ship.checkClick returns the module of the cell, the
\* screens return themselves
hitEntity(g, t) ==
    LET i == firstHit(t)
    IN IF i = 0 THEN NoEntity
       ELSE IF entities[i].kind = "Ship"
            THEN [ kind |-> "module", x |-> t[1], y |-> t[2], type |-> g[t[2]][t[1]].type ]
            ELSE [ NoEntity EXCEPT !.kind = entities[i].kind ]

\* the alive flag of entity h: modules stay alive, a screen is alive while
\* its entry in the entities array is
hoveredAlive(h) ==
    \/ h.kind = "module"
    \/ \E i \in 1..Len(entities) : entities[i].kind = h.kind /\ entities[i].alive

\* whether the module object h is the one the grid g holds in its cell
inGrid(g, h) == h.y \in DOMAIN g /\ g[h.y][h.x].type = h.type

\* h.onMouseOut() on the fields st: ShipModule and NullModule reset the
\* cursor, NullModule drops its outline, Entity does nothing
onMouseOut(st, h) ==
    IF h.kind # "module" THEN st
    ELSE IF h.type = "NullModule" /\ inGrid(st.modules, h)
         THEN [ st EXCEPT !.cursor = "default",
                          !.modules = [ st.modules EXCEPT ![h.y][h.x].showOutline = FALSE ] ]
         ELSE [ st EXCEPT !.cursor = "default" ]

\* h.onMouseOver() on the fields st: a broken ShipModule and a NullModule
\* with build options set the pointer cursor
onMouseOver(st, h) ==
    IF h.kind # "module" THEN st
    ELSE IF h.type = "NullModule"
         THEN IF st.modules[h.y][h.x].buildOptions # {}
              THEN [ st EXCEPT !.cursor = "pointer",
                               !.modules = [ st.modules EXCEPT ![h.y][h.x].showOutline = TRUE ] ]
              ELSE st
         ELSE IF st.modules[h.y][h.x].damageLevel = "broken"
              THEN [ st EXCEPT !.cursor = "pointer" ]
              ELSE st

\* an onMouseMove that fires hover-exit on a tracked entity that has died
onMouseMoveExitsDead(st, t, hit) ==
    LET old == st.hoveredEntity
        s0 == [ st EXCEPT !.mouse = t ]
    IN IF hit = old THEN [ s0 EXCEPT !.hoverCalls = << >> ]
       ELSE LET s1 == onMouseOut(s0, old)
                s2 == onMouseOver([ s1 EXCEPT !.hoveredEntity = hit ], hit)
            IN [ s2 EXCEPT !.hoverCalls =
                     (IF old # NoEntity THEN << << "onMouseOut", old >> >> ELSE << >>) \o
                     (IF hit # NoEntity THEN << << "onMouseOver", hit >> >> ELSE << >>) ]

\* onMouseMove(ev) on the fields st, for an event at pointer position t whose
\* hit test returns the entity hit
onMouseMove(st, t, hit) ==
    LET old == IF st.hoveredEntity # NoEntity /\ ~ hoveredAlive(st.hoveredEntity)
               THEN NoEntity ELSE st.hoveredEntity
        s0 == [ st EXCEPT !.mouse = t, !.hoveredEntity = old ]
    IN IF hit = old THEN [ s0 EXCEPT !.hoverCalls = << >> ]
       ELSE LET s1 == onMouseOut(s0, old)
                s2 == onMouseOver([ s1 EXCEPT !.hoveredEntity = hit ], hit)
            IN [ s2 EXCEPT !.hoverCalls =
                     (IF old # NoEntity THEN << << "onMouseOut", old >> >> ELSE << >>) \o
                     (IF hit # NoEntity THEN << << "onMouseOver", hit >> >> ELSE << >>) ]

\* the position of the event triggerSyntheticMouseMove() hands to
\* onMouseMove: MouseEventInit has no offsetX / offsetY member, so the event
\* reads offsetX = offsetY = 0, left of the ship's box (box.x is half a module)
SyntheticPosition == Outside

\* State.triggerSyntheticMouseMove() on the fields st
triggerSyntheticMouseMove(st) ==
    onMouseMove(st, SyntheticPosition, hitEntity(st.modules, SyntheticPosition))

\* a cooldown that runs the callback without clearing it
runCooldownKeepsCallback(gc, dt) ==
    LET cd1 == Max(0, gc.cooldown - dt)
        fire == cd1 = 0 /\ gc.currentCallback.kind # "null"
    IN IF fire
       THEN triggerSyntheticMouseMove(
                [ gc EXCEPT !.cooldown = cd1,
                            !.modules = callbackModules(gc.modules, gc.currentCallback),
                            !.rows = callbackRows(gc.rows, gc.currentCallback),
                            !.cursor = "default" ])
       ELSE [ gc EXCEPT !.cooldown = cd1 ]

\* the part of GameController.tick that runs the cooldown: gc holds the fields
\* of state, the callback fires when the cooldown reaches 0
runCooldown(gc, dt) ==
    LET cd1 == Max(0, gc.cooldown - dt)
        fire == cd1 = 0 /\ gc.currentCallback.kind # "null"
    IN IF fire
       THEN triggerSyntheticMouseMove(
                [ gc EXCEPT !.cooldown = cd1, !.currentCallback = NoCallback,
                            !.modules = callbackModules(gc.modules, gc.currentCallback),
                            !.rows = callbackRows(gc.rows, gc.currentCallback),
                            !.cursor = "default" ])
       ELSE [ gc EXCEPT !.cooldown = cd1 ]

\* an integration that leaves the buoyancy out
applyStatsNoBuoyancy(gc, stats, dt) ==
    [ gc EXCEPT
        !.speed = stats.speed,
        !.distanceTraveled = gc.distanceTraveled + (dt \div 100) * stats.speed,
        !.shipDraught = gc.shipDraught + (dt \div 100) * stats.weight ]

\* the part of GameController.tick that integrates the stats of the ship
applyStats(gc, stats, dt) ==
    [ gc EXCEPT
        !.speed = stats.speed,
        !.distanceTraveled = gc.distanceTraveled + (dt \div 100) * stats.speed,
        !.shipDraught = gc.shipDraught + (dt \div 100) * (stats.weight - stats.buoyancy) ]

\* `const stats = state.ship.getStats()' and what follows it
updatePhysics(gc, dt) ==
    IF getStatsFaults(gc.modules) THEN [ gc EXCEPT !.threw = TRUE ]
    ELSE applyStats(gc, getStats(gc.modules, gc.shipDraught), dt)

\* the loss test at the head of GameController.tick
checkLoss(lose) ==
    [ gameRunning |-> gameRunning /\ ~ lose,
      cooldown |-> IF lose THEN 0 ELSE cooldown,
      currentCallback |-> currentCallback, modules |-> modules,
      rows |-> rows, speed |-> speed,
      distanceTraveled |-> distanceTraveled, shipDraught |-> shipDraught,
      pushed |-> IF lose THEN << NewEntity("GameOverScreen") >> ELSE << >>,
      threw |-> FALSE,
      cursor |-> cursor, hoveredEntity |-> hoveredEntity, mouse |-> mouse,
      hoverCalls |-> hoverCalls ]

\* what GameController.tick does after the loss test left the fields gc
afterLoss(gc, dt) ==
    IF ~ gc.gameRunning \/ ~ shipUpdating THEN gc
    ELSE updatePhysics(runCooldown(gc, dt), dt)

\* GameController.tick(timeSinceLastTick): the fields it leaves, the entities
\* it pushes and whether Ship.getStats threw
GameControllerTick(dt) ==
    afterLoss(checkLoss(shipSunk(shipHeight(modules), shipDraught, gameRunning)), dt)

\* a loop of tick() that keeps the dead entities in the array
tickEntitiesNoCompaction(titleDone, pushed) ==
    LET ticked == [ i \in 1..Len(entities) |->
                    IF entities[i].kind = "TitleScreen" /\ titleDone
                    THEN [ entities[i] EXCEPT !.alive = FALSE ]
                    ELSE entities[i] ]
    IN ticked \o pushed \o
       (IF titleDone THEN << NewEntity("DebugDisplay") >> ELSE << >>)

\* the entities array after the loop of tick(): dead entities are filtered
\* out, the TitleScreen dies when its fade is over, new entities are pushed
tickEntities(titleDone, pushed) ==
    LET kept == SelectSeq(entities, LAMBDA e : e.alive)
        ticked == [ i \in 1..Len(kept) |->
                    IF kept[i].kind = "TitleScreen" /\ titleDone
                    THEN [ kept[i] EXCEPT !.alive = FALSE ]
                    ELSE kept[i] ]
    IN ticked \o pushed \o
       (IF titleDone THEN << NewEntity("DebugDisplay") >> ELSE << >>)

\* TitleScreen.tick: ms left until fadeUntil after `elapsed' ms
fadeAfter(elapsed) == IF fadeLeft > 0 THEN Max(0, fadeLeft - elapsed) ELSE fadeLeft

\* whether TitleScreen.tick ends the title screen in this tick
titleEnds(fade) ==
    /\ \E i \in 1..Len(entities) : entities[i].kind = "TitleScreen" /\ entities[i].alive
    /\ fadeLeft # -1
    /\ fade = 0

\* a Particle.tick that expires a particle at liveUntil already
ParticleTickAtExpiry(p, age) ==
    IF age >= p.life THEN [ p EXCEPT !.age = age, !.alive = FALSE ]
    ELSE [ p EXCEPT !.age = age ]

\* Particle.tick(deltaT, t) on particle p, whose age t - created is now `age'
\* (this.liveUntil is created + life)
ParticleTick(p, age) ==
    IF age > p.life THEN [ p EXCEPT !.age = age, !.alive = FALSE ]
    ELSE [ p EXCEPT !.age = age ]

\* a tick() that runs its loop over the entities while paused, too
tickParticlesWhilePaused(ps, elapsed, ticking) ==
    LET kept == SelectSeq(ps, LAMBDA p : p.alive)
    IN [ i \in 1..Len(kept) |-> ParticleTick(kept[i], kept[i].age + elapsed) ]

\* the Particle entities after a call of tick() `elapsed' ms after the last:
\* when the loop runs, the dead are filtered out and the others tick
tickParticles(ps, elapsed, ticking) ==
    IF ticking
    THEN LET kept == SelectSeq(ps, LAMBDA p : p.alive)
         IN [ i \in 1..Len(kept) |-> ParticleTick(kept[i], kept[i].age + elapsed) ]
    ELSE [ i \in 1..Len(ps) |-> [ ps[i] EXCEPT !.age = @ + elapsed ] ]

\* tick(): elapsed is now - previousTick; draw gives Math.random() per module
Tick(elapsed, draw) ==
    \E dt \in { Min(elapsed, MaxTickDelta) } :
    \E gc \in { GameControllerTick(dt) } :
    \E titleDone \in { titleEnds(fadeAfter(elapsed)) } :
       /\ fadeLeft' = fadeAfter(elapsed)
       /\ UNCHANGED << keydownListeners, tickTimers >>
       /\ particles' = tickParticles(particles, elapsed, ~ paused /\ ~ gc.threw)
       /\ IF paused
          THEN UNCHANGED << modules, rows, shipUpdating, shipDraught, distanceTraveled,
                            timeElapsed, speed, cooldown, currentCallback, paused,
                            gameRunning, entities, menus, cursor, hoveredEntity,
                            mouse, hoverCalls >>
          ELSE /\ gameRunning' = gc.gameRunning
               /\ cursor' = gc.cursor
               /\ hoveredEntity' = gc.hoveredEntity
               /\ mouse' = gc.mouse
               /\ hoverCalls' = gc.hoverCalls
               /\ cooldown' = gc.cooldown
               /\ currentCallback' = gc.currentCallback
               /\ rows' = gc.rows
               /\ speed' = gc.speed
               /\ distanceTraveled' = gc.distanceTraveled
               /\ shipDraught' = gc.shipDraught
               /\ UNCHANGED << paused, menus >>
               /\ IF gc.threw
                  THEN \* the TypeError leaves tick(): nothing after it runs
                       /\ modules' = gc.modules
                       /\ UNCHANGED << shipUpdating, timeElapsed, entities >>
                  ELSE /\ modules' =
                            IF shipUpdating
                            THEN ShipTick(gc.modules, gc.shipDraught, dt,
                                          difficultyCoefficient(gc.distanceTraveled,
                                                                timeElapsed),
                                          draw)
                            ELSE gc.modules
                       /\ shipUpdating' = (shipUpdating \/ titleDone)
                       /\ entities' = tickEntities(titleDone, gc.pushed)
                       /\ timeElapsed' = timeElapsed + dt

\* the cells that draw random numbers once GameController.tick has left gc
rollsAfter(gc) ==
    IF paused \/ gc.threw \/ ~ shipUpdating THEN {}
    ELSE Rolls(gc.modules, gc.shipDraught)

\* the modules that draw random numbers in the tick after `elapsed' ms
TickRolls(elapsed) == rollsAfter(GameControllerTick(Min(elapsed, MaxTickDelta)))

(***************************************************************************)
(* Pointer and keyboard events.                                             *)
(***************************************************************************)
\* the click listeners of the open menus run in the order they were added;
\* T is ev.target.moduleType, "undefined" for any other element
RECURSIVE clickHandlers(_, _, _)
clickHandlers(ms, T, st) ==
    IF ms = << >> THEN st
    ELSE LET m == Head(ms)
             built == IF T # "undefined" /\ m.ship = "current"
                      THEN [ st EXCEPT
                               !.modules = addModule(st.modules, m.x, m.y, "ConstructionModule"),
                               !.rows = addModuleRows(st.rows, m.y) ]
                      ELSE st
             acted == IF T # "undefined"
                      THEN [ built EXCEPT !.cooldown = ActionDelay,
                                          !.currentCallback = BuildCallback(m.x, m.y, T, m.ship),
                                          !.cursor = "wait" ]
                      ELSE built
         IN clickHandlers(Tail(ms), T, [ acted EXCEPT !.paused = FALSE ])

\* a click event reaches document.body with target element of moduleType T
BodyClick(T) ==
    \E st \in { clickHandlers(menus, T,
                  [ modules |-> modules, rows |-> rows, cooldown |-> cooldown,
                    currentCallback |-> currentCallback, paused |-> paused,
                    cursor |-> cursor ]) } :
       /\ modules' = st.modules
       /\ rows' = st.rows
       /\ cooldown' = st.cooldown
       /\ currentCallback' = st.currentCallback
       /\ paused' = st.paused
       /\ cursor' = st.cursor
       /\ menus' = << >>
       /\ UNCHANGED << shipUpdating, shipDraught, distanceTraveled, timeElapsed, speed,
                       gameRunning, entities, fadeLeft, keydownListeners, tickTimers,
                       particles, hoveredEntity, mouse, hoverCalls >>

\* a NullModule.onClick without the early return
ModuleOnClickAnySlot(x, y) ==
    LET m == modules[y][x] IN
    IF m.type = "NullModule"
    THEN IF FALSE
         THEN UNCHANGED vars
         ELSE /\ menus' = Append(menus, [ x |-> x, y |-> y, options |-> m.buildOptions,
                                          ship |-> "current" ])
              /\ paused' = TRUE
              /\ UNCHANGED << modules, rows, shipUpdating, shipDraught, distanceTraveled,
                              timeElapsed, speed, cooldown, currentCallback, gameRunning,
                              entities, fadeLeft, keydownListeners, tickTimers, particles,
                              cursor, hoveredEntity, mouse, hoverCalls >>
    ELSE IF m.damageLevel = "broken"
         THEN /\ modules' = [ modules EXCEPT ![y][x].isBeingRepaired = TRUE ]
              /\ cooldown' = ActionDelay
              /\ currentCallback' = RepairCallback(x, y)
              /\ cursor' = "wait"
              /\ UNCHANGED << rows, shipUpdating, shipDraught, distanceTraveled, timeElapsed,
                              speed, paused, gameRunning, entities, menus, fadeLeft,
                              keydownListeners, tickTimers, particles,
                              hoveredEntity, mouse, hoverCalls >>
         ELSE UNCHANGED vars

\* NullModule.onClick / ShipModule.onClick of the module at (x, y)
ModuleOnClick(x, y) ==
    LET m == modules[y][x] IN
    IF m.type = "NullModule"
    THEN IF m.buildOptions = {}
         THEN UNCHANGED vars
         ELSE /\ menus' = Append(menus, [ x |-> x, y |-> y, options |-> m.buildOptions,
                                          ship |-> "current" ])
              /\ paused' = TRUE
              /\ UNCHANGED << modules, rows, shipUpdating, shipDraught, distanceTraveled,
                              timeElapsed, speed, cooldown, currentCallback, gameRunning,
                              entities, fadeLeft, keydownListeners, tickTimers, particles,
                              cursor, hoveredEntity, mouse, hoverCalls >>
    ELSE IF m.damageLevel = "broken"
         THEN /\ modules' = [ modules EXCEPT ![y][x].isBeingRepaired = TRUE ]
              /\ cooldown' = ActionDelay
              /\ currentCallback' = RepairCallback(x, y)
              /\ cursor' = "wait"
              /\ UNCHANGED << rows, shipUpdating, shipDraught, distanceTraveled, timeElapsed,
                              speed, paused, gameRunning, entities, menus, fadeLeft,
                              keydownListeners, tickTimers, particles,
                              hoveredEntity, mouse, hoverCalls >>
         ELSE UNCHANGED vars

\* TitleScreen.onClick
TitleOnClick ==
    IF fadeLeft # -1 THEN UNCHANGED vars
    ELSE /\ fadeLeft' = FadeTime
         /\ UNCHANGED << modules, rows, shipUpdating, shipDraught, distanceTraveled,
                         timeElapsed, speed, cooldown, currentCallback, paused, gameRunning,
                         entities, menus, keydownListeners, tickTimers, particles,
                         cursor, hoveredEntity, mouse, hoverCalls >>

\* GameOverScreen.onClick: setUp(canvasEl); the menus of the old ship stay open
GameOverOnClick ==
    /\ SetUpState
    /\ menus' = [ i \in 1..Len(menus) |-> [ menus[i] EXCEPT !.ship = "old" ] ]

\* onClick(ev) of the canvas, then the bubbling of the event to document.body
\* unless a handler called ev.stopPropagation()
CanvasClick(t) ==
    \E i \in { IF cooldown > 0 THEN 0 ELSE firstHit(t) } :
       IF i = 0 THEN BodyClick("undefined")
       ELSE CASE entities[i].kind = "Ship" -> ModuleOnClick(t[1], t[2])
              [] entities[i].kind = "TitleScreen" -> TitleOnClick
              [] entities[i].kind = "GameOverScreen" -> GameOverOnClick

\* a click on an element of an open build menu: a module button (T) or the
\* cancel button and the inner elements of a button ("undefined")
MenuTargets == { "undefined" } \cup UNION { menus[i].options : i \in 1..Len(menus) }

MenuClick(T) ==
    /\ menus # << >>
    /\ T \in MenuTargets
    /\ BodyClick(T)

\* a mousemove event on the canvas at pointer position t
MouseMove(t) ==
    \E st \in { onMouseMove([ modules |-> modules, cursor |-> cursor,
                               hoveredEntity |-> hoveredEntity, mouse |-> mouse,
                               hoverCalls |-> hoverCalls ], t, hitEntity(modules, t)) } :
       /\ modules' = st.modules
       /\ cursor' = st.cursor
       /\ hoveredEntity' = st.hoveredEntity
       /\ mouse' = st.mouse
       /\ hoverCalls' = st.hoverCalls
       /\ UNCHANGED << rows, shipUpdating, shipDraught, distanceTraveled, timeElapsed,
                       speed, cooldown, currentCallback, paused, gameRunning, entities,
                       menus, fadeLeft, keydownListeners, tickTimers, particles >>

\* emitParticle(ParticleClass, life, x, y): the Particle's liveUntil is
\* performance.now() + life
EmitParticle(life) ==
    /\ particles' = Append(particles, [ life |-> life, age |-> 0, alive |-> TRUE ])
    /\ UNCHANGED << modules, rows, shipUpdating, shipDraught, distanceTraveled,
                    timeElapsed, speed, cooldown, currentCallback, paused, gameRunning,
                    entities, menus, fadeLeft, keydownListeners, tickTimers,
                    cursor, hoveredEntity, mouse, hoverCalls >>

\* a keydown event with ev.code == 'Space': every listener setUp has added
\* runs `state.paused = !state.paused'
KeySpace ==
    /\ paused' = IF keydownListeners % 2 = 1 THEN ~ paused ELSE paused
    /\ UNCHANGED << modules, rows, shipUpdating, shipDraught, distanceTraveled,
                    timeElapsed, speed, cooldown, currentCallback, gameRunning, entities,
                    menus, fadeLeft, keydownListeners, tickTimers, particles,
                    cursor, hoveredEntity, mouse, hoverCalls >>

(***************************************************************************)
(* The specification.                                                       *)
(***************************************************************************)
\* ms between two calls of tick(): within and beyond the clamp of 1000 ms
TickElapsed == { 1000, 1500 }

\* ticks that pass while the title screen is left up: each only adds its
\* delta to timeElapsed (GameController.tick returns at `!state.ship.updating',
\* TitleScreen.tick at `!this.fadeStart')
IdleTicks == 108

\* the same, shorter (SpecHalf)
HalfIdleTicks == 90

TitleUp == fadeLeft = -1

idleTicks(n) ==
    /\ TitleUp
    /\ ~ paused
    /\ timeElapsed = 0
    /\ timeElapsed' = n * MaxTickDelta
    /\ UNCHANGED << modules, rows, shipUpdating, shipDraught, distanceTraveled, speed,
                    cooldown, currentCallback, paused, gameRunning, entities, menus,
                    fadeLeft, keydownListeners, tickTimers, particles,
                    cursor, hoveredEntity, mouse, hoverCalls >>

TitleIdle == idleTicks(IdleTicks)

\* whether a click at t starts a new session
restarts(t) ==
    /\ cooldown = 0
    /\ firstHit(t) # 0
    /\ entities[firstHit(t)].kind = "GameOverScreen"

\* whether a click at t opens a build menu
opensMenu(t) ==
    /\ cooldown = 0
    /\ firstHit(t) # 0
    /\ entities[firstHit(t)].kind = "Ship"
    /\ modules[t[2]][t[1]].type = "NullModule"
    /\ modules[t[2]][t[1]].buildOptions # {}

\* the interval timer calls tick() `elapsed' ms after the last call, until
\* timeElapsed reaches `horizon'
Ticks(elapsed, horizon) ==
    \E e \in elapsed : \E draw \in [ TickRolls(e) -> Draws ] :
       /\ ~ TitleUp
       /\ tickTimers > 0
       /\ \A i \in 1..Len(particles) : particles[i].age + e <= MaxParticleAge
       /\ timeElapsed + Min(e, MaxTickDelta) <= horizon
       /\ Tick(e, draw)

\* what a session does once the title screen is being dismissed: the timer
\* ticks (`elapsed' ms apart) until timeElapsed reaches `horizon', the pointer
\* clicks (a menu is opened while fewer than `open' are, the game is restarted
\* MaxRestarts times), a build is confirmed while the ship holds fewer than
\* `most' modules, Space is pressed
Session(elapsed, horizon, most, open) ==
    \/ Ticks(elapsed, horizon)
    \/ \E t \in Targets :
          /\ opensMenu(t) => Len(menus) < open
          /\ restarts(t) => keydownListeners <= MaxRestarts
          /\ CanvasClick(t)
    \/ \E T \in ModuleTypeSet \cup { "undefined" } :
          /\ T # "undefined" =>
               moduleCount(modules)
                 + Cardinality({ i \in 1..Len(menus) : menus[i].ship = "current" })
                   <= most
          /\ MenuClick(T)
    \/ KeySpace

\* a session whose title screen is dismissed after IdleTicks ticks, when the
\* difficulty coefficient has grown: modules take damage and are repaired;
\* the player opens one build menu at a time
Next ==
    \/ TitleIdle
    \/ /\ TitleUp => timeElapsed > 0
       /\ Session(TickElapsed, IdleTicks * MaxTickDelta + MaxTime, MaxModules, 1)

Spec == Init /\ [][Next]_vars

\* a session whose title screen is dismissed at once: the ship is built
NextBuild == Session(TickElapsed, MaxBuildTime, MaxBuildModules, MaxBuildMenus)

SpecBuild == Init /\ [][NextBuild]_vars

\* ms between two calls of tick() in SpecLoss: the draught moves in steps
\* fine enough to land on the ship's height exactly
LossElapsed == { 500, 1000 }

\* a session whose title screen is dismissed at once, followed until the ship
\* can have sunk
NextLoss == Session(LossElapsed, MaxLossTime, MaxModules, 1)

SpecLoss == Init /\ [][NextLoss]_vars

\* the same, with one more build menu open at a time
NextMenus == Session(TickElapsed, MaxBuildTime, MaxBuildModules, MaxBuildMenus + 1)

SpecMenus == Init /\ [][NextMenus]_vars

\* a session whose title screen is dismissed after HalfIdleTicks ticks, when a
\* hit of the start hull can add half of its health
NextHalf ==
    \/ idleTicks(HalfIdleTicks)
    \/ /\ TitleUp => timeElapsed > 0
       /\ Session(TickElapsed, HalfIdleTicks * MaxTickDelta + MaxTime, MaxModules, 1)

SpecHalf == Init /\ [][NextHalf]_vars

\* a session without player action beyond the clicks that dismiss the title
\* screen and the game-over screen: the start hull is left adrift
NextAdrift ==
    \/ TitleIdle
    \/ /\ TitleUp => timeElapsed > 0
       /\ \/ Ticks(TickElapsed, IdleTicks * MaxTickDelta + MaxAdriftTime)
          \/ \E t \in Targets :
                /\ ~ opensMenu(t)
                /\ restarts(t) => keydownListeners <= MaxRestarts
                /\ CanvasClick(t)
                /\ cooldown' = 0
          \/ KeySpace

SpecAdrift == Init /\ [][NextAdrift]_vars

\* the lifetimes the callers of emitParticle pass
ParticleLives == { 600, 1000 }

\* ms between two calls of tick() in SpecParticle
ParticleElapsed == { 500, 1000 }

\* a session in which particles are emitted.  Particles feed back into nothing
\* (they are not interactive and no handler reads them); the other
\* specifications leave their emission out
NextParticle ==
    \/ \E life \in ParticleLives :
          /\ Len(particles) < MaxParticles
          /\ EmitParticle(life)
    \/ Session(ParticleElapsed, MaxParticleTime, 1, 1)

SpecParticle == Init /\ [][NextParticle]_vars

\* ms of play in SpecFault
MaxFaultTime == 2500

\* ms between two calls of tick() in SpecFault: the draught moves in steps
\* fine enough for the bottom row to stay above the water under a boiler
FaultElapsed == { 500 }

\* a session like that of SpecMenus, with finer ticks and room for one more
\* module
NextFault == Session(FaultElapsed, MaxFaultTime, MaxBuildModules + 1, MaxBuildMenus + 1)

SpecFault == Init /\ [][NextFault]_vars

\* ms of play after the title screen in SpecHover
MaxHoverTime == 2000

\* the pointer positions of SpecHover: the start hull, the slots beside and
\* above it, off the ship
HoverTargets == { << 2, 0 >>, << 1, 0 >>, << 2, 1 >>, Outside }

\* a session like that of Spec in which the pointer also moves over the canvas
NextHover ==
    \/ TitleIdle
    \/ \E t \in HoverTargets : MouseMove(t)
    \/ /\ TitleUp => timeElapsed > 0
       /\ Session(TickElapsed, IdleTicks * MaxTickDelta + MaxHoverTime, MaxModules, 1)

SpecHover == Init /\ [][NextHover]_vars

(***************************************************************************)
(* Properties.                                                              *)
(***************************************************************************)
Cells == { c \in (DOMAIN modules) \X (0..(columns - 1)) : TRUE }

\* the step in which the repair callback of the module at (x, y) runs
repairCompletes(x, y) ==
    /\ modules[y][x].isBeingRepaired
    /\ y \in DOMAIN modules'
    /\ ~ modules'[y][x].isBeingRepaired
    /\ currentCallback = RepairCallback(x, y)
    /\ currentCallback' = NoCallback
    /\ timeElapsed' > timeElapsed

\* C1: in the step in which the deferred repair of a module completes, the
\* module's damage is 0 and its damage level is 'normal'; a repaired module
\* is never left 'broken'.
C1_RepairAtomic ==
    [][ \A c \in Cells :
          repairCompletes(c[2], c[1]) =>
              /\ modules'[c[1]][c[2]].damage = 0
              /\ modules'[c[1]][c[2]].damageLevel = "normal" ]_vars

\* the GameOverScreen entities in the entities array
GameOverScreens == { i \in 1..Len(entities) : entities[i].kind = "GameOverScreen" }

\* a step of tick() that ran the simulation
simulationTick == timeElapsed' > timeElapsed

\* a step of setUp(): a new State
restart == timeElapsed # 0 /\ timeElapsed' = 0

\* what a step does to the loss state when the simulation tick finds `sunk'
lossStep(sunk) ==
    /\ (simulationTick /\ sunk) =>
          /\ ~ gameRunning'
          /\ Cardinality(GameOverScreens') = Cardinality(GameOverScreens) + 1
    /\ (~ restart /\ ~ (simulationTick /\ sunk)) =>
          /\ gameRunning' = gameRunning
          /\ GameOverScreens' = GameOverScreens
    /\ restart => gameRunning' /\ GameOverScreens' = {}

C3_ClickIgnoredInCooldown ==
    /\ currentCallback.kind \in { "null", "repair", "build" }
    /\ cooldown > 0 => \A t \in Targets : ENABLED (CanvasClick(t) /\ UNCHANGED vars)

\* the module at cell c is the same object before and after the step
sameModule(c) ==
    /\ keydownListeners' = keydownListeners
    /\ c[1] \in DOMAIN modules'
    /\ modules'[c[1]][c[2]].type = modules[c[1]][c[2]].type

\* C4: a module's damage level moves normal -> damaged, normal -> broken or
\* damaged -> broken, with growing damage, and back to 'normal' only from
\* 'broken' with the damage a completed repair has reset to 0; nothing but a
\* completed repair of a broken module lowers the damage.
C4_LevelMoves ==
    [][ \A c \in Cells :
          LET m == modules[c[1]][c[2]]
              n == modules'[c[1]][c[2]]
          IN sameModule(c) =>
               /\ \/ n.damageLevel = m.damageLevel
                  \/ /\ m.damageLevel = "normal"
                     /\ n.damageLevel \in { "damaged", "broken" }
                     /\ n.damage > m.damage
                  \/ /\ m.damageLevel = "damaged"
                     /\ n.damageLevel = "broken"
                     /\ n.damage > m.damage
                  \/ /\ m.damageLevel = "broken"
                     /\ n.damageLevel = "normal"
                     /\ n.damage = 0
                     /\ repairCompletes(c[2], c[1]) \/ m.damage = 0
               /\ n.damage < m.damage =>
                     /\ m.damageLevel = "broken"
                     /\ repairCompletes(c[2], c[1]) ]_vars

\* a module broke, was repaired (nothing else lowers the damage) and has been
\* hit since
C4_RepairedAndHit ==
    \E c \in Cells :
        LET m == modules[c[1]][c[2]]
        IN m.damageLevel = "broken" /\ 0 < m.damage /\ m.damage < health

\* C5: every module's damage is within 0..health.
C5_DamageInRange ==
    \A c \in Cells : modules[c[1]][c[2]].damage \in 0..health

\* hits have taken a module's damage up to health
C5_Clamped ==
    \E c \in Cells :
        /\ modules[c[1]][c[2]].damage = health
        /\ modules[c[1]][c[2]].damageLevel = "broken"

edgeColumn(x) == x = 0 \/ x = columns - 1

C7_EdgeColumnsNotSolid ==
    \A c \in Cells : edgeColumn(c[2]) => ~ solid(modules[c[1]][c[2]])

\* C8: the grid has the rows 0..rows-1 and no other, and every row holds
\* `columns' modules, each of a module class (a NullModule where empty).
C8_RowsFullyPopulated ==
    /\ DOMAIN modules = 0..(rows - 1)
    /\ \A y \in DOMAIN modules :
          /\ DOMAIN modules[y] = 0..(columns - 1)
          /\ \A x \in DOMAIN modules[y] : modules[y][x].type \in AllTypes

\* addModule has built on the top row and added a row of slots above it
C8_RowAdded ==
    /\ rows = 3
    /\ \E x \in 0..(columns - 1) :
          modules[1][x].type \notin { "NullModule", "ConstructionModule" }
    /\ \A x \in 0..(columns - 1) : modules[2][x].type = "NullModule"

\* the cells next to (x, y): left, right, below, above
neighbours(x, y) == { << x - 1, y >>, << x + 1, y >>, << x, y - 1 >>, << x, y + 1 >> }

\* the display flags of the module at (x, y) of grid g are what updateDisplay
\* computes from g, and a second updateDisplay changes nothing
flagsConsistent(g, x, y) ==
    LET m == getModule(g, x, y)
        once == updateDisplay(g, m, x, y)
    IN m # Absent => (once = m /\ updateDisplay(g, once, x, y) = once)

\* C9: whatever cell and module class addModule is called with on the ship,
\* it leaves each existing orthogonal neighbour of the cell with the display
\* flags updateDisplay computes from the new grid, and a second updateDisplay
\* leaves them as they are.
C9_NeighbourFlags ==
    \A c \in Cells : \A T \in AllTypes \ { "NullModule" } :
        \A n \in neighbours(c[2], c[1]) :
            flagsConsistent(addModule(modules, c[2], c[1], T), n[1], n[2])

\* addModule has refreshed neighbours: a hull shows its left joint to a hull
\* built after it, and the slot above a built module offers modules
C9_NeighboursRefreshed ==
    \E c \in Cells :
        /\ c[2] # 2
        /\ modules[c[1]][c[2]].type = "HullModule"
        /\ modules[0][2].renderLeftHull
        /\ modules[c[1] + 1][c[2]].buildOptions # {}

\* the sum of f over the set S
RECURSIVE SumOver(_, _)
SumOver(f, S) ==
    IF S = {} THEN 0
    ELSE LET c == CHOOSE e \in S : TRUE IN f[c] + SumOver(f, S \ { c })

\* a simulation tick that reached the physics of GameController.tick
physicsTick == simulationTick /\ gameRunning' /\ shipUpdating

\* C10: in every simulation tick that runs the physics, the speed, the change
\* of the draught and the change of the distance are those of the sums of
\* weight, buoyancy and speed over all cells of the grid as it is in that
\* tick (after the pending action, if it ran), nothing being kept from an
\* earlier tick.
C10_StatsAreSums ==
    [][ physicsTick =>
          LET dt == timeElapsed' - timeElapsed
              g == GameControllerTick(dt).modules
              cells == { c \in (DOMAIN g) \X (0..(columns - 1)) : TRUE }
              W == SumOver([ c \in cells |-> weight(g, shipDraught, c[2], c[1]) ], cells)
              B == SumOver([ c \in cells |-> moduleBuoyancy(g, shipDraught, c[2], c[1]) ],
                           cells)
              S == SumOver([ c \in cells |-> moduleSpeed(g, shipDraught, c[2], c[1]) ], cells)
          IN /\ speed' = S
             /\ shipDraught' = shipDraught + (dt \div 100) * (W - B)
             /\ distanceTraveled' = distanceTraveled + (dt \div 100) * S ]_vars

\* the ship has sailed with a module above the bottom row
C10_Sailed ==
    /\ speed > 0
    /\ distanceTraveled > 0
    /\ \E x \in 0..(columns - 1) : modules[1][x].type # "NullModule"

\* C11: across session starts and restarts at most one interval timer drives
\* tick(): a restart clears the timer of the session it replaces.
C11_OneTimer == tickTimers <= 1

\* C12: in every state of every session, restarted ones included, a Space
\* key-down flips state.paused.
C12_SpaceToggles == ENABLED (KeySpace /\ paused' = ~ paused)

\* C13 as stated: after a simulation tick, a particle that was ticked is alive
\* when the tick's timestamp is before created + life (age < life) and dead
\* when it is at or after created + life (age >= life).
C13_ParticleLifetime ==
    [][ simulationTick =>
          \A i \in 1..Len(particles') :
              particles'[i].alive <=> particles'[i].age < particles'[i].life ]_vars

\* C13 amended: after a simulation tick, a particle that was ticked is alive
\* when the tick's timestamp is at or before created + life and dead when it is
\* after created + life.
C13_ParticleExpiry ==
    [][ simulationTick =>
          \A i \in 1..Len(particles') :
              particles'[i].alive <=> particles'[i].age <= particles'[i].life ]_vars

\* a particle has been ticked at created + life exactly, and one beyond it
C13_TickedAtExpiry ==
    /\ \E i \in 1..Len(particles) :
          particles[i].alive /\ particles[i].age = particles[i].life
    /\ \E i \in 1..Len(particles) :
          ~ particles[i].alive /\ particles[i].age > particles[i].life

\* the module at cell c ran the damage block of ShipModule.tick in this step
ticked(c) ==
    /\ simulationTick
    /\ shipUpdating
    /\ sameModule(c)
    /\ c \in Rolls(modules', shipDraught')

\* C14 as stated: after its tick a fragile hull module whose damage is exactly
\* half of its health is 'damaged', and one whose damage equals its health is
\* 'broken'.
C14_HalfIsDamaged ==
    [][ \A c \in Cells :
          (ticked(c) /\ modules[c[1]][c[2]].type = "HullModule") =>
              LET n == modules'[c[1]][c[2]]
              IN /\ 2 * n.damage = health => n.damageLevel = "damaged"
                 /\ n.damage = health => n.damageLevel = "broken" ]_vars

\* C14 amended: after its tick a fragile hull module that was 'normal' is
\* still 'normal' when its damage is exactly half of its health, 'damaged' when
\* its damage is between half and all of its health, and any fragile hull
\* module whose damage equals its health is 'broken'.
C14_HalfIsNormal ==
    [][ \A c \in Cells :
          (ticked(c) /\ modules[c[1]][c[2]].type = "HullModule") =>
              LET m == modules[c[1]][c[2]]
                  n == modules'[c[1]][c[2]]
              IN /\ (m.damageLevel = "normal" /\ 2 * n.damage = health) =>
                        n.damageLevel = "normal"
                 /\ (m.damageLevel = "normal" /\ 2 * n.damage > health
                       /\ n.damage < health) => n.damageLevel = "damaged"
                 /\ n.damage = health => n.damageLevel = "broken" ]_vars

\* a hull module has been hit to exactly half of its health
C14_HitToHalf ==
    \E c \in Cells :
        LET m == modules[c[1]][c[2]]
        IN m.type = "HullModule" /\ 2 * m.damage = health /\ m.damageLevel = "normal"

\* the ship is the start hull alone, in a running game
adrift ==
    /\ gameRunning
    /\ shipUpdating
    /\ moduleCount(modules) = 1
    /\ modules[0][2].type = "HullModule"
    /\ currentCallback = NoCallback
    /\ speed = 0

\* C15 as stated: with the start hull alone, zero speed and no player action,
\* every simulation tick of the running game that finds the draught below the
\* module height increases the draught.
C15_DraughtRises ==
    [][ (adrift /\ simulationTick /\ shipDraught < SHIP_MODULE_HEIGHT * Scale) =>
            shipDraught' > shipDraught ]_vars

\* C15 amended: with the start hull alone, zero speed and no player action,
\* a simulation tick raises the draught when the hull's buoyancy is below its
\* weight and lowers it when the buoyancy is above; with an unflooded hull the
\* draught stays below the module height, and the loss condition triggers
\* only at a tick that finds a flooded hull with the draught above the module
\* height.
C15_FloatsUnlessFlooded ==
    [][ (adrift /\ simulationTick) =>
          LET lift == moduleBuoyancy(modules, shipDraught, 2, 0)
              load == weight(modules, shipDraught, 2, 0)
          IN /\ ~ gameRunning' =>
                   /\ modules[0][2].floodAmount > 0
                   /\ shipDraught > SHIP_MODULE_HEIGHT * Scale
             /\ gameRunning' =>
                   /\ shipDraught' > shipDraught <=> lift < load
                   /\ shipDraught' < shipDraught <=> lift > load
             /\ modules[0][2].floodAmount = 0 =>
                   shipDraught' < SHIP_MODULE_HEIGHT * Scale ]_vars

\* the start hull, left alone, has flooded and the game is lost
C15_SunkAdrift ==
    /\ ~ gameRunning
    /\ moduleCount(modules) = 1
    /\ modules[0][2].floodAmount > 0
    /\ shipDraught > SHIP_MODULE_HEIGHT * Scale

\* a click at t is dispatched to a buildable slot without build options
emptySlotAt(t) ==
    /\ cooldown = 0
    /\ firstHit(t) # 0
    /\ entities[firstHit(t)].kind = "Ship"
    /\ modules[t[2]][t[1]].type = "NullModule"
    /\ modules[t[2]][t[1]].buildOptions = {}

\* C16: a click dispatched to a buildable slot whose set of legal module types
\* is empty changes nothing: no menu opens, and the pause flag, the cooldown,
\* the pending action and the grid stay as they are.
C16_EmptySlotClickIsNoOp ==
    \A t \in Targets :
        emptySlotAt(t) =>
            /\ ENABLED (CanvasClick(t) /\ UNCHANGED vars)
            /\ ~ ENABLED (CanvasClick(t) /\ vars' # vars)

\* a ship that has been built on shows a slot without build options
C16_EmptySlotShown ==
    /\ moduleCount(modules) > 1
    /\ \E t \in Targets : emptySlotAt(t) /\ t[2] > 0

\* the step is a call of tick() in which GameController.tick goes past its
\* two early returns
cooldownTick ==
    /\ simulationTick
    /\ shipUpdating
    /\ gameRunning'

\* the pending action has been invoked in this step
invoked ==
    /\ currentCallback.kind = "repair" =>
          ~ modules'[currentCallback.y][currentCallback.x].isBeingRepaired
    /\ (currentCallback.kind = "build" /\ currentCallback.ship = "current") =>
          modules'[currentCallback.y][currentCallback.x].type = currentCallback.type

\* no module was built or repaired in this step
notInvoked ==
    /\ DOMAIN modules' = DOMAIN modules
    /\ \A c \in Cells :
          /\ modules'[c[1]][c[2]].type = modules[c[1]][c[2]].type
          /\ modules'[c[1]][c[2]].isBeingRepaired = modules[c[1]][c[2]].isBeingRepaired

\* C17: an unpaused tick of a running session lowers the cooldown by the tick
\* delta, floored at 0; when that leaves 0 with an action pending the action
\* is invoked and the pending slot cleared, otherwise nothing is invoked and
\* the slot is kept; an action is scheduled only with a positive cooldown, so
\* none is invoked twice.
C17_CooldownResolves ==
    /\ [][ cooldownTick =>
             /\ cooldown' = Max(0, cooldown - (timeElapsed' - timeElapsed))
             /\ IF cooldown' = 0 /\ currentCallback # NoCallback
                THEN invoked /\ currentCallback' = NoCallback
                ELSE notInvoked /\ currentCallback' = currentCallback ]_vars
    /\ [][ (currentCallback' # currentCallback /\ currentCallback' # NoCallback) =>
              cooldown' > 0 ]_vars

\* a tick has lowered the cooldown of a pending build without invoking it
C17_HalfWay ==
    /\ cooldown > 0
    /\ cooldown < ActionDelay
    /\ currentCallback.kind = "build"
    /\ modules[currentCallback.y][currentCallback.x].type = "ConstructionModule"

\* State.doPlayerAction is invoked in this step
scheduled ==
    /\ cooldown' = ActionDelay
    /\ currentCallback' # NoCallback
    /\ cooldown # ActionDelay \/ currentCallback' # currentCallback

\* the invocations of State.doPlayerAction in a step that schedules: one by
\* ShipModule.onClick, one by the clickHandler of every open menu
invocations == IF menus # << >> /\ menus' = << >> THEN Len(menus) ELSE 1

\* C18: State.doPlayerAction is never invoked while a scheduled action is
\* pending: a step that schedules an action starts with none pending and
\* invokes doPlayerAction once.
C18_NoActionOverwritten ==
    [][ scheduled => (currentCallback = NoCallback /\ invocations = 1) ]_vars

\* the type of the module at cell c
typeAt(g, c) == g[c[1]][c[2]].type

\* C19: a confirmed build turns the slot into a ConstructionModule and
\* schedules the build of that cell with a cooldown of 1000 ms; in a running
\* session a placeholder stays while the cooldown is positive and is the
\* chosen module as soon as the cooldown is 0.
C19_BuildAfterCooldown ==
    /\ [][ \A c \in Cells :
             (typeAt(modules, c) = "NullModule" /\ c[1] \in DOMAIN modules'
                /\ typeAt(modules', c) = "ConstructionModule") =>
                 /\ cooldown' = ActionDelay
                 /\ currentCallback'.kind = "build"
                 /\ currentCallback'.x = c[2]
                 /\ currentCallback'.y = c[1] ]_vars
    /\ [][ \A c \in Cells :
             (typeAt(modules, c) = "ConstructionModule" /\ gameRunning'
                /\ keydownListeners' = keydownListeners) =>
                 IF cooldown' > 0
                 THEN typeAt(modules', c) = "ConstructionModule"
                 ELSE /\ currentCallback.kind = "build"
                      /\ typeAt(modules', c) = currentCallback.type ]_vars

\* the pending action is the build of cell c on the current ship
awaited(c) ==
    /\ currentCallback.kind = "build"
    /\ currentCallback.ship = "current"
    /\ currentCallback.x = c[2]
    /\ currentCallback.y = c[1]

\* C20: no placeholder stays in the grid forever.  Only the pending action
\* replaces a ConstructionModule, so in a running session every placeholder
\* is the cell the pending action builds.
C20_PlaceholderAwaited ==
    gameRunning =>
        \A c \in Cells : typeAt(modules, c) = "ConstructionModule" => awaited(c)

\* a click at t is dispatched to the module at t, which is no buildable slot
moduleAt(t) ==
    /\ cooldown = 0
    /\ firstHit(t) # 0
    /\ entities[firstHit(t)].kind = "Ship"
    /\ modules[t[2]][t[1]].type # "NullModule"

\* what a click dispatched to the module at t does: it starts the repair of a
\* broken module and is a no-op on any other
repairClick(t) ==
    IF modules[t[2]][t[1]].damageLevel = "broken"
    THEN ENABLED /\ CanvasClick(t)
                 /\ modules'[t[2]][t[1]].isBeingRepaired
                 /\ cooldown' = ActionDelay
                 /\ currentCallback' = RepairCallback(t[1], t[2])
    ELSE /\ ENABLED (CanvasClick(t) /\ UNCHANGED vars)
         /\ ~ ENABLED (CanvasClick(t) /\ vars' # vars)

\* the pending action is the repair of cell c
repairAwaited(c) ==
    /\ currentCallback.kind = "repair"
    /\ currentCallback.x = c[2]
    /\ currentCallback.y = c[1]

\* C21: a click on a broken module sets isBeingRepaired and schedules the
\* repair with a cooldown of 1000 ms, a click on any other module changes
\* nothing; the tick in which the cooldown of a pending repair expires clears
\* isBeingRepaired and resets the damage to 0 (before the module's own tick);
\* so every module of a running game that is being repaired is the one the
\* pending action repairs.
C21_RepairByClick ==
    /\ [] (\A t \in Targets : moduleAt(t) => repairClick(t))
    /\ [][ \A c \in Cells :
             (cooldownTick /\ repairAwaited(c) /\ cooldown' = 0) =>
                 /\ ~ modules'[c[1]][c[2]].isBeingRepaired
                 /\ \/ modules'[c[1]][c[2]].damage = 0
                    \/ c \in Rolls(modules', shipDraught') ]_vars
    /\ [] (gameRunning =>
             \A c \in Cells : modules[c[1]][c[2]].isBeingRepaired => repairAwaited(c))

\* C22: a hull module's flood amount grows only in a tick in which the module
\* is broken, stays within 0..buoyancy, and falls (to 0) only when a repair
\* completes; the step that completes a repair leaves it at 0 and it grows
\* again only after the module has broken again, that is with its damage back
\* at its health.
C22_FloodOnlyWhileBroken ==
    /\ [] (\A c \in Cells : modules[c[1]][c[2]].floodAmount \in 0..(buoyancy * Scale))
    /\ [][ \A c \in Cells :
             LET m == modules[c[1]][c[2]]
                 n == modules'[c[1]][c[2]]
             IN sameModule(c) =>
                  /\ n.floodAmount > m.floodAmount =>
                        /\ simulationTick
                        /\ n.damageLevel = "broken"
                        /\ n.damage = health
                  /\ n.floodAmount < m.floodAmount =>
                        /\ n.floodAmount = 0
                        /\ repairCompletes(c[2], c[1])
                  /\ (repairCompletes(c[2], c[1]) /\ n.damage < health) =>
                        n.floodAmount = 0 ]_vars

\* C23: a hull module with floodAmount > 0 has damage level 'broken'.
C23_FloodedIsBroken ==
    \A c \in Cells :
        LET m == modules[c[1]][c[2]]
        IN (m.type = "HullModule" /\ m.floodAmount > 0) => m.damageLevel = "broken"

\* a hull module is broken and has taken in water
C23_Flooded ==
    \E c \in Cells :
        LET m == modules[c[1]][c[2]]
        IN m.type = "HullModule" /\ m.floodAmount > Scale /\ m.damageLevel = "broken"

\* the entities a click at t could be delivered to: interactive and hit
hitsAt(t) ==
    { i \in 1..Len(entities) :
        isEntityInteractive(entities[i]) /\ checkClick(entities[i], t) }

\* the click handler of entity e for a click at t
onClickOf(e, t) ==
    CASE e.kind = "Ship" -> ModuleOnClick(t[1], t[2])
      [] e.kind = "TitleScreen" -> TitleOnClick
      [] e.kind = "GameOverScreen" -> GameOverOnClick

\* C24: a click (outside a cooldown) that hits some interactive entity does
\* what the click handler of the first of them in array order does, and
\* nothing else.
C24_FirstHitOnly ==
    \A t \in Targets :
        (cooldown = 0 /\ hitsAt(t) # {}) =>
            \E i \in hitsAt(t) :
                /\ \A j \in hitsAt(t) : i <= j
                /\ ENABLED (CanvasClick(t) /\ onClickOf(entities[i], t))
                /\ ~ ENABLED (CanvasClick(t) /\ ~ onClickOf(entities[i], t))

\* a click would hit two interactive entities, and the handler of the first
\* changes the state
C24_TwoHit ==
    \E t \in Targets :
        /\ cooldown = 0
        /\ Cardinality(hitsAt(t)) > 1
        /\ ENABLED (CanvasClick(t) /\ vars' # vars)

\* a step of onMouseMove for a mousemove event on the canvas, at the pointer
\* position mouse'
pointerMove ==
    /\ << mouse, hoveredEntity, hoverCalls, cursor >>' #
          << mouse, hoveredEntity, hoverCalls, cursor >>
    /\ UNCHANGED << timeElapsed, cooldown, currentCallback, menus, keydownListeners >>

\* the handler calls of a pointer move from the tracked entity old to the
\* hit-tested entity hit
exitThenEnter(old, hit) ==
    (IF old # NoEntity THEN << << "onMouseOut", old >> >> ELSE << >>) \o
    (IF hit # NoEntity THEN << << "onMouseOver", hit >> >> ELSE << >>)

\* C25: on a pointer move whose hit-tested target differs from the tracked
\* entity, hover-exit is called on the old one (if any), then hover-enter on
\* the new one (if any), and the new one is tracked; when the target is the
\* tracked entity no handler is called; a tracked entity that is no longer
\* alive is dropped without a call of its hover-exit.
C25_HoverDispatch ==
    [][ pointerMove =>
          LET hit == hitEntity(modules, mouse')
          IN IF hoveredEntity # NoEntity /\ ~ hoveredAlive(hoveredEntity)
             THEN /\ hoverCalls' = exitThenEnter(NoEntity, hit)
                  /\ hoveredEntity' = hit
             ELSE IF hit # hoveredEntity
             THEN /\ hoverCalls' = exitThenEnter(hoveredEntity, hit)
                  /\ hoveredEntity' = hit
             ELSE /\ hoverCalls' = << >>
                  /\ UNCHANGED << hoveredEntity, cursor, modules >> ]_vars

\* the pointer has left a module for the title screen, which has died and is
\* still in the entity list: hover-exit and hover-enter have been called, and
\* the tracked title screen is dropped by the next move, which enters a module
C25_ExitEnterThenDead ==
    /\ Len(hoverCalls) = 2
    /\ hoverCalls[1][2].kind = "module"
    /\ hoveredEntity.kind = "TitleScreen"
    /\ ~ hoveredAlive(hoveredEntity)
    /\ ENABLED /\ MouseMove(<< 2, 0 >>)
               /\ Len(hoverCalls') = 1
               /\ hoveredEntity'.kind = "module"


\* C28: while a deferred action is pending (cooldown > 0) the cursor is the
\* busy cursor, whatever pointer moves occur, and it leaves 'wait' only in
\* the tick that invokes the pending action at the expiry of the cooldown,
\* which sets it to 'default'.
C28_BusyCursor ==
    /\ [](cooldown > 0 => cursor = "wait")
    /\ [][ (cursor = "wait" /\ cursor' # "wait") =>
              /\ simulationTick
              /\ currentCallback # NoCallback
              /\ currentCallback' = NoCallback
              /\ cooldown' = 0
              /\ cursor' = "default" ]_vars


\* the step is a call of tick(): the wall clock of the particles has advanced
\* or the loop has dropped a particle
tickCall ==
    /\ particles # << >>
    /\ keydownListeners' = keydownListeners
    /\ \/ Len(particles') < Len(particles)
       \/ /\ Len(particles') = Len(particles)
          /\ \E i \in 1..Len(particles) : particles'[i].age > particles[i].age

living(es) == SelectSeq(es, LAMBDA e : e.alive)

\* after is what the loop of tick() makes of before: the living members in
\* their order, each dead only if it died in this tick, then the appended
\* ones, which are alive
compacted(before, after) ==
    /\ Len(after) >= Len(living(before))
    /\ \A i \in 1..Len(after) :
          IF i <= Len(living(before))
          THEN [ after[i] EXCEPT !.alive = TRUE ] =
                   [ living(before)[i] EXCEPT !.alive = TRUE ]
          ELSE after[i].alive

\* C27: after an unpaused tick the entity list holds the entities that were
\* alive when visited, in their order, followed by the entities appended in
\* the tick; what was dead before the tick is gone, and what died in it is
\* still there, to be dropped by the next unpaused tick.
C27_Compaction ==
    [][ simulationTick =>
          /\ compacted(entities, entities')
          /\ Len(particles') = Len(living(particles))
          /\ \A i \in 1..Len(particles') :
                [ particles'[i] EXCEPT !.alive = TRUE, !.age = 0 ] =
                    [ living(particles)[i] EXCEPT !.age = 0 ] ]_vars

\* the title screen has died and been dropped, the DebugDisplay it appended
\* is in the list, and a particle has died and waits for the next tick
C27_DroppedAndAppended ==
    /\ \E i \in 1..Len(entities) : entities[i].kind = "DebugDisplay"
    /\ \A i \in 1..Len(entities) : entities[i].kind # "TitleScreen"
    /\ \E i \in 1..Len(particles) : ~ particles[i].alive
    /\ \E i \in 1..Len(particles) : particles[i].alive

\* C29: for as long as a build menu is open the game is paused, so no
\* simulation tick runs and no cell of the ship takes a click.
C29_MenuPauses ==
    /\ [](menus # << >> => paused)
    /\ [][ menus # << >> =>
             /\ ~ simulationTick
             /\ Len(menus') <= Len(menus)
             /\ menus' = menus =>
                   UNCHANGED << modules, rows, cooldown, currentCallback >> ]_vars

\* C30: between events the buildOptions cached on every empty slot of the
\* grid is exactly the set of module types that canBuildModule accepts there
\* on the current grid, in rows just added and away from the last placement
\* as well as next to it.
C30_BuildOptionsCurrent ==
    \A c \in Cells :
        modules[c[1]][c[2]].type = "NullModule" =>
            modules[c[1]][c[2]].buildOptions =
                { T \in ModuleTypeSet : canBuildModule(modules, c[2], c[1], T) }

\* a module stands in row 1, so that row 2 has been added: the slot above the
\* module offers types, a slot of the new row away from it offers none, and
\* a slot of row 0 still offers what it did
C30_GrownShip ==
    /\ 2 \in DOMAIN modules
    /\ \E x \in 0..(columns - 1) :
          /\ modules[1][x].type \notin { "NullModule", "ConstructionModule" }
          /\ modules[2][x].type = "NullModule"
          /\ modules[2][x].buildOptions # {}
    /\ \E x \in 0..(columns - 1) :
          modules[2][x].type = "NullModule" /\ modules[2][x].buildOptions = {}
    /\ \E x \in 0..(columns - 1) :
          modules[0][x].type = "NullModule" /\ modules[0][x].buildOptions # {}

\* the grid Ship.getStats() reads in the tick after dt ms: the callback of an
\* expiring cooldown has run on it
statsGrid(dt) ==
    IF Max(0, cooldown - dt) = 0 /\ currentCallback # NoCallback
    THEN callbackModules(modules, currentCallback)
    ELSE modules

\* C31: at an unpaused tick of a running session with the ship updating,
\* shipDraught changes by (weight - buoyancy) * delta / 100 and
\* distanceTraveled by speed * delta / 100, with the aggregate stats of the
\* ship computed in that tick; no other step of a session changes either.
C31_Physics ==
    [][ IF physicsTick
        THEN LET dt == timeElapsed' - timeElapsed
                 stats == getStats(statsGrid(dt), shipDraught)
             IN /\ shipDraught' =
                      shipDraught + (dt \div 100) * (stats.weight - stats.buoyancy)
                /\ distanceTraveled' = distanceTraveled + (dt \div 100) * stats.speed
                /\ speed' = stats.speed
        ELSE keydownListeners' = keydownListeners =>
                UNCHANGED << shipDraught, distanceTraveled >> ]_vars

\* the ship has a sail: it has travelled, its draught has moved off the
\* start value, and the session is paused with the speed still set
C31_Travelled ==
    /\ paused
    /\ distanceTraveled > 0
    /\ shipDraught # 10 * Scale
    /\ speed > 0
    /\ \E c \in Cells : modules[c[1]][c[2]].type \in { "FinSailModule", "SailModule" }

\* a step within one session: setUp() does not run in it
sameSession == keydownListeners' = keydownListeners

\* C32: within a session distanceTraveled and timeElapsed never decrease, so
\* that the difficulty coefficient max(distanceTraveled / 2000,
\* timeElapsed / 120000) never decreases from one tick to the next.
C32_DifficultyGrows ==
    [][ sameSession =>
          /\ distanceTraveled' >= distanceTraveled
          /\ timeElapsed' >= timeElapsed
          /\ difficultyCoefficient(distanceTraveled', timeElapsed') >=
                difficultyCoefficient(distanceTraveled, timeElapsed) ]_vars

\* the ship has travelled and its sail has since gone half under water: the
\* speed is back at 0 and the distance stays where it is
C32_Becalmed ==
    /\ distanceTraveled > 0
    /\ timeElapsed > 0
    /\ speed = 0
    /\ \E c \in Cells : modules[c[1]][c[2]].type \in { "FinSailModule", "SailModule" }

\* a call of tick() in an unpaused session whose ship is not updating yet:
\* the title screen is up or fading
titleTick ==
    /\ ~ shipUpdating
    /\ sameSession
    /\ \/ timeElapsed' # timeElapsed
       \/ fadeLeft > 0 /\ fadeLeft' < fadeLeft

\* C33: until the title screen has been dismissed (ship.updating is false) a
\* simulation tick changes none of the draught, the distance, the cooldown,
\* the damage of the modules or the elapsed time, and so leaves the
\* difficulty coefficient where it was.
C33_TitleFreezes ==
    [][ titleTick =>
          /\ UNCHANGED << shipDraught, distanceTraveled, cooldown, timeElapsed >>
          /\ \A c \in Cells : modules'[c[1]][c[2]].damage = modules[c[1]][c[2]].damage
          /\ difficultyCoefficient(distanceTraveled', timeElapsed') =
                difficultyCoefficient(distanceTraveled, timeElapsed) ]_vars

\* the coordinates around and inside the largest grid
Around == (-1..columns) \X (-1..MaxRows)

\* the module types whose placement predicate needs a module below, to the
\* left, to the right
NeedsBelow ==
    { "SailModule", "BoilerModule", "BalloonModule", "CastleModule", "SmokeStackModule" }
NeedsLeft == { "PropellerModule" }
NeedsRight == { "FinSailModule" }

\* C34: grid queries never fault.  getModule returns absent for coordinates
\* outside the grid; no slot offers a module that needs a neighbour where the
\* grid ends; and no inflation check of a balloon on the grid meets an absent
\* module below it, so that Ship.getStats never throws.
C34_NoFault ==
    /\ \A c \in Around :
          (c[2] \notin DOMAIN modules \/ c[1] \notin 0..(columns - 1)) =>
              /\ getModule(modules, c[1], c[2]) = Absent
              /\ ~ solid(getModule(modules, c[1], c[2]))
    /\ \A c \in Cells :
          modules[c[1]][c[2]].type = "NullModule" =>
              /\ c[1] = 0 => modules[c[1]][c[2]].buildOptions \cap NeedsBelow = {}
              /\ c[2] = 0 => modules[c[1]][c[2]].buildOptions \cap NeedsLeft = {}
              /\ c[2] = columns - 1 => modules[c[1]][c[2]].buildOptions \cap NeedsRight = {}
    /\ ~ getStatsFaults(modules)
    /\ ~ getStatsFaults(statsGrid(MaxTickDelta))

\* row y lies entirely below the draught line
underWater(y) == (y + 1) * SHIP_MODULE_HEIGHT * Scale < shipDraught

\* the cells of the grid as pointer positions
CellTargets == { t \in Targets : t # Outside /\ t[2] \in DOMAIN modules }

\* C35: a module in a row that lies entirely below the draught line is never
\* returned by the hit test of the ship, so that it is neither clicked (a
\* broken module there is not repaired) nor hovered; the module of every
\* other row of a running session is returned when the pointer is in its cell.
C35_UnderWaterUnreachable ==
    /\ [](\A t \in CellTargets :
            /\ underWater(t[2]) =>
                  /\ ~ checkClick(NewEntity("Ship"), t)
                  /\ hitEntity(modules, t).kind # "module"
            /\ (gameRunning /\ t[2] < rows /\ ~ underWater(t[2])) =>
                  checkClick(NewEntity("Ship"), t))
    /\ [][ \A c \in Cells :
             /\ (c[1] \in DOMAIN modules' /\ modules'[c[1]][c[2]].isBeingRepaired
                   /\ ~ modules[c[1]][c[2]].isBeingRepaired) => ~ underWater(c[1])
             /\ (pointerMove /\ hoveredEntity' # hoveredEntity
                   /\ hoveredEntity'.kind = "module"
                   /\ hoveredEntity'.x = c[2] /\ hoveredEntity'.y = c[1]) =>
                   ~ underWater(c[1]) ]_vars

\* the pointer is over a broken module in a row under water of a running
\* session that takes clicks: no module is hovered
C35_OverSunkModule ==
    /\ gameRunning /\ shipUpdating /\ ~ paused /\ cooldown = 0
    /\ mouse # Outside
    /\ mouse[2] \in DOMAIN modules
    /\ underWater(mouse[2])
    /\ modules[mouse[2]][mouse[1]].damageLevel = "broken"
    /\ ~ modules[mouse[2]][mouse[1]].isBeingRepaired
    /\ hoveredEntity.kind # "module"
    /\ hoverCalls # << >>
====
